---------------------------- MODULE Spec2Model ----------------------------
(***************************************************************************)
(* Model of tokonomics' cost calculation (ChatPricing.calculate_cost) and  *)
(* of the bulk import of the model registry (ModelRegistry.from_dict).     *)
(*                                                                         *)
(* The specifications share the variables:                                 *)
(*   SpecCost      a ChatPricing object on which calculate_cost is called  *)
(*                 repeatedly with token counts around the two thresholds; *)
(*   SpecConvert   a ChatCompletionModel converted by                      *)
(*                 ChatModel.from_chat_completion_model, then              *)
(*                 calculate_cost called on the converted pricing;         *)
(*   Spec          one run of ModelRegistry.from_dict over a raw mapping,  *)
(*                 one loop iteration per step, then the return;           *)
(*   SpecReport    the same on longer mappings, for the lines it prints;   *)
(*   SpecLoad      the import of one entry beside load_model_config on the *)
(*                 same attribute dict;                                    *)
(*   SpecQuery     an import followed by any sequence of the registry's    *)
(*                 query methods;                                          *)
(*   SpecCheapest  an import of priced records followed by                 *)
(*                 get_cheapest_model_by_mode;                             *)
(*   SpecDiscovery one call of get_all_models or get_all_models_sync, the  *)
(*                 fetches of the selected providers interleaved with the  *)
(*                 caller (SpecDiscoveryFair: the same with every enabled  *)
(*                 step eventually taken).                                 *)
(* Each specification leaves the other parts' variables at their idle      *)
(* values.                                                                 *)
(***************************************************************************)
EXTENDS Integers, Sequences, FiniteSets, TLC

VARIABLES
    \* ---- ChatPricing / calculate_cost ----
    pricing,         \* the ChatPricing object (its six rate fields read by calculate_cost)
    called,          \* TRUE once calculate_cost has been called
    input_tokens,    \* argument of the last call
    output_tokens,   \* argument of the last call
    input_cost,      \* local input_cost of the last call (None when not assigned)
    output_cost,     \* local output_cost of the last call (None when not assigned)
    result,          \* return value of the last call: None or Some(total_cost)
    \* ---- ChatModel.from_chat_completion_model ----
    completion_model,  \* the ChatCompletionModel handed to the conversion (its pricing fields)
    chat_model,        \* None, or Some(the ChatModel the conversion returned)
    \* ---- ModelRegistry.from_dict ----
    data,            \* the raw mapping, as its item sequence <<name, config_data>>
    pos,             \* number of items the for loop has consumed
    models,          \* local dict models, as its item sequence <<name, model_config>>
    failed_models,   \* local list failed_models (names; the reason text is not modelled)
    dropped_models,  \* local list dropped_models
    validated,       \* history: the model_validate calls made, <<name, variant>>
    stdout,          \* the lines from_dict has printed, in order
    loaded,          \* None, or Some(the last call of load_model_config: its
                     \* argument, the variant whose model_validate it called, its end)
    pc,              \* "idle" | "loop" | "done" | "raised"
    \* ---- ModelRegistry queries ----
    query,           \* the last query on the built registry: [op, arg, ret, exc]
    \* ---- get_all_models / get_all_models_sync (model_discovery/__init__.py) ----
    aggregator,          \* the function called: "get_all_models" | "get_all_models_sync"
    providers,           \* the providers argument: None or Some(sequence of tags)
    include_deprecated,  \* the include_deprecated argument
    source,              \* per selected provider: what its constructor and get_models do
    fetches,             \* per selected provider: the state of its fetch_provider_models
    consumed,            \* the indices whose result the caller has merged, in merge order
    all_models,          \* the local list all_models
    dpc                  \* "idle" | "waiting" | "collect" | "unwinding" | "returned" | "raised"

costVars == <<pricing, called, input_tokens, output_tokens, input_cost, output_cost, result,
              completion_model, chat_model>>
regVars  == <<data, pos, models, failed_models, dropped_models, validated, stdout, loaded,
              pc>>
vars     == <<pricing, called, input_tokens, output_tokens, input_cost, output_cost, result,
              completion_model, chat_model,
              data, pos, models, failed_models, dropped_models, validated, stdout, loaded,
              pc, query,
              aggregator, providers, include_deprecated, source, fetches, consumed,
              all_models, dpc>>
discVars == <<aggregator, providers, include_deprecated, source, fetches, consumed,
              all_models, dpc>>

-----------------------------------------------------------------------------
(* Optional decimals.  A Decimal rate is an integer number of RateUnits    *)
(* (a fixed power of ten); products with token counts and sums are exact   *)
(* in Decimal arithmetic as long as the coefficient stays below the 28     *)
(* digits of the default context, which holds for every value used here.   *)

None == <<>>

Some(x) == <<x>>

Val(o) == o[1]

\* No query has been made on a registry.
NoQuery == [op |-> "none", arg |-> "-", ret |-> None, exc |-> "none"]

\* No discovery call is in progress.
DiscIdle ==
    /\ aggregator = "idle"
    /\ providers = None
    /\ include_deprecated = FALSE
    /\ source = <<>>
    /\ fetches = <<>>
    /\ consumed = <<>>
    /\ all_models = <<>>
    /\ dpc = "idle"

\* Largest rate (in RateUnits) a pricing field takes in the model.
MaxRate == 2

Rates == 0..MaxRate

OptRate == {None} \cup {Some(r) : r \in Rates}

Threshold128k == 128000

Threshold200k == 200000

InputTokenCounts ==
    {0, 100, Threshold128k, Threshold200k, 250000}

OutputTokenCounts == {0, 1, 300000}

\* One tier of a volume pricing table: the token range it covers and its rates.
TieredPricingTier(low, high, input_rate, output_rate) ==
    [range |-> <<low, high>>,
     input_cost_per_token  |-> input_rate,
     output_cost_per_token |-> output_rate]

\* The values of the field tiered_pricing: no table, or a table of two tiers
\* that meet at the lower context threshold.  SpecCost calls calculate_cost on
\* records without a table, SpecConvert on converted records with and without.
TieredPricing ==
    {None,
     Some(<<TieredPricingTier(0, Threshold128k, MaxRate, MaxRate),
            TieredPricingTier(Threshold128k, 1000000, 0, 0)>>)}

ChatPricing ==
    [input_cost_per_token   : OptRate,
     output_cost_per_token  : OptRate,
     input_cost_above_128k  : OptRate,
     output_cost_above_128k : OptRate,
     input_cost_above_200k  : OptRate,
     output_cost_above_200k : OptRate,
     output_cost_per_reasoning_token : {None},
     input_cost_priority    : {None},
     output_cost_priority   : {None},
     input_cost_flex        : {None},
     output_cost_flex       : {None},
     input_cost_per_image   : {None},
     input_cost_per_audio_second : {None},
     input_cost_per_video_second : {None},
     tiered_pricing         : TieredPricing]

NoPricing ==
    [input_cost_per_token   |-> None,
     output_cost_per_token  |-> None,
     input_cost_above_128k  |-> None,
     output_cost_above_128k |-> None,
     input_cost_above_200k  |-> None,
     output_cost_above_200k |-> None,
     output_cost_per_reasoning_token |-> None,
     input_cost_priority    |-> None,
     output_cost_priority   |-> None,
     input_cost_flex        |-> None,
     output_cost_flex       |-> None,
     input_cost_per_image   |-> None,
     input_cost_per_audio_second |-> None,
     input_cost_per_video_second |-> None,
     tiered_pricing         |-> None]

-----------------------------------------------------------------------------
(* ChatPricing.calculate_cost *)

\* Faulty variant of PricingUnavailable (used to test the properties): truthiness instead of `is None`, so a rate of
\* zero counts as missing.
PricingUnavailable_Falsy(self) ==
    /\ (self.input_cost_per_token = None \/ self.input_cost_per_token = Some(0))
    /\ (self.output_cost_per_token = None \/ self.output_cost_per_token = Some(0))

\* line 77: the early-return test
PricingUnavailable(self) ==
    self.input_cost_per_token = None /\ self.output_cost_per_token = None

\* Faulty variant of SelectInputCost (used to test the properties): the 128k test is >= instead of >.
SelectInputCost_NonStrict(self, n) ==
    IF n > Threshold200k /\ self.input_cost_above_200k # None
    THEN self.input_cost_above_200k
    ELSE IF n >= Threshold128k /\ self.input_cost_above_128k # None
    THEN self.input_cost_above_128k
    ELSE self.input_cost_per_token

\* Faulty variant of SelectInputCost (used to test the properties): the 128k branch is tested before the 200k branch.
SelectInputCost_LowFirst(self, n) ==
    IF n > Threshold128k /\ self.input_cost_above_128k # None
    THEN self.input_cost_above_128k
    ELSE IF n > Threshold200k /\ self.input_cost_above_200k # None
    THEN self.input_cost_above_200k
    ELSE self.input_cost_per_token

\* Faulty variant of SelectInputCost (used to test the properties): above a threshold the tier's rate is taken even
\* when it is None (no fall-through to the next lower tier).
SelectInputCost_NoFallThrough(self, n) ==
    IF n > Threshold200k
    THEN self.input_cost_above_200k
    ELSE IF n > Threshold128k
    THEN self.input_cost_above_128k
    ELSE self.input_cost_per_token

\* lines 84-89: the rate bound to the local input_cost
SelectInputCost(self, n) ==
    IF n > Threshold200k /\ self.input_cost_above_200k # None
    THEN self.input_cost_above_200k
    ELSE IF n > Threshold128k /\ self.input_cost_above_128k # None
    THEN self.input_cost_above_128k
    ELSE self.input_cost_per_token

\* Faulty variant of SelectOutputCost (used to test the properties): the thresholds are tested on output_tokens.
SelectOutputCost_ByOutputTokens(self, n, m) ==
    IF m > Threshold200k /\ self.output_cost_above_200k # None
    THEN self.output_cost_above_200k
    ELSE IF m > Threshold128k /\ self.output_cost_above_128k # None
    THEN self.output_cost_above_128k
    ELSE self.output_cost_per_token

\* lines 96-101: the rate bound to the local output_cost (tests input_tokens)
SelectOutputCost(self, n, m) ==
    IF n > Threshold200k /\ self.output_cost_above_200k # None
    THEN self.output_cost_above_200k
    ELSE IF n > Threshold128k /\ self.output_cost_above_128k # None
    THEN self.output_cost_above_128k
    ELSE self.output_cost_per_token

\* Faulty variant of Accumulate (used to test the properties): `=` instead of `+=`.
Accumulate_Overwrite(total, rate, tokens) ==
    IF rate # None THEN Val(rate) * tokens ELSE total

\* lines 91-92 and 103-104: total_cost += rate * tokens, when the rate is not None
Accumulate(total, rate, tokens) ==
    IF rate # None THEN total + Val(rate) * tokens ELSE total

\* The locals and the return value of one call.  A local that the call never
\* assigns (early return, or a token count of 0) is reported as None.
CostFrame(self, n, m) ==
    IF PricingUnavailable(self)
    THEN [input_cost |-> None, output_cost |-> None, result |-> None]
    ELSE LET ic == IF n > 0 THEN SelectInputCost(self, n) ELSE None
             oc == IF m > 0 THEN SelectOutputCost(self, n, m) ELSE None
             t0 == 0
             t1 == IF n > 0 THEN Accumulate(t0, ic, n) ELSE t0
             t2 == IF m > 0 THEN Accumulate(t1, oc, m) ELSE t1
         IN  [input_cost |-> ic, output_cost |-> oc, result |-> Some(t2)]

RegIdle ==
    /\ data = <<>>
    /\ pos = 0
    /\ models = <<>>
    /\ failed_models = <<>>
    /\ dropped_models = <<>>
    /\ validated = <<>>
    /\ stdout = <<>>
    /\ loaded = None
    /\ pc = "idle"
    /\ query = NoQuery

InitCost ==
    /\ pricing \in ChatPricing
    /\ pricing.tiered_pricing = None
    /\ called = FALSE
    /\ input_tokens = 0
    /\ output_tokens = 0
    /\ input_cost = None
    /\ output_cost = None
    /\ result = None
    /\ completion_model = None
    /\ chat_model = None
    /\ RegIdle
    /\ DiscIdle

calculate_cost ==
    \E n \in InputTokenCounts, m \in OutputTokenCounts :
        LET f == CostFrame(pricing, n, m) IN
        /\ called' = TRUE
        /\ input_tokens' = n
        /\ output_tokens' = m
        /\ input_cost' = f.input_cost
        /\ output_cost' = f.output_cost
        /\ result' = f.result
        /\ UNCHANGED <<pricing, completion_model, chat_model, regVars, query, discVars>>

NextCost == calculate_cost

SpecCost == InitCost /\ [][NextCost]_vars

-----------------------------------------------------------------------------
(* ChatModel.from_chat_completion_model *)

\* The pricing fields of a ChatCompletionModel, under the names the conversion
\* reads them by.  The six rates that calculate_cost uses vary independently;
\* the other rates and the pricing table are absent together or defined
\* together.
ChatCompletionModel ==
    {[litellm_provider |-> "openai",
      mode |-> "chat",
      input_cost_per_token  |-> r[1],
      output_cost_per_token |-> r[2],
      input_cost_per_token_above_128k_tokens  |-> r[3],
      output_cost_per_token_above_128k_tokens |-> r[4],
      input_cost_per_token_above_200k_tokens  |-> r[5],
      output_cost_per_token_above_200k_tokens |-> r[6],
      output_cost_per_reasoning_token |-> IF rest THEN Some(0) ELSE None,
      input_cost_per_token_priority   |-> IF rest THEN Some(MaxRate) ELSE None,
      output_cost_per_token_priority  |-> IF rest THEN Some(MaxRate - 1) ELSE None,
      input_cost_per_token_flex       |-> IF rest THEN Some(1) ELSE None,
      output_cost_per_token_flex      |-> IF rest THEN Some(0) ELSE None,
      input_cost_per_image            |-> IF rest THEN Some(MaxRate) ELSE None,
      input_cost_per_audio_per_second |-> IF rest THEN Some(1) ELSE None,
      input_cost_per_video_per_second |-> IF rest THEN Some(MaxRate - 1) ELSE None,
      tiered_pricing |-> IF rest THEN CHOOSE t \in TieredPricing : t # None ELSE None] :
        r \in [1..6 -> OptRate], rest \in BOOLEAN}

\* Faulty variant of from_chat_completion_model (used to test the properties):
\* an absent standard rate becomes a rate of zero.
from_chat_completion_model_ZeroForAbsent(name, model) ==
    LET OrZero(rate) == IF rate = None THEN Some(0) ELSE rate
    IN  [name |-> name,
         provider |-> model.litellm_provider,
         mode |-> model.mode,
         pricing |->
            [input_cost_per_token   |-> OrZero(model.input_cost_per_token),
             output_cost_per_token  |-> OrZero(model.output_cost_per_token),
             output_cost_per_reasoning_token |-> model.output_cost_per_reasoning_token,
             input_cost_above_128k  |-> model.input_cost_per_token_above_128k_tokens,
             output_cost_above_128k |-> model.output_cost_per_token_above_128k_tokens,
             input_cost_above_200k  |-> model.input_cost_per_token_above_200k_tokens,
             output_cost_above_200k |-> model.output_cost_per_token_above_200k_tokens,
             input_cost_priority    |-> model.input_cost_per_token_priority,
             output_cost_priority   |-> model.output_cost_per_token_priority,
             input_cost_flex        |-> model.input_cost_per_token_flex,
             output_cost_flex       |-> model.output_cost_per_token_flex,
             input_cost_per_image   |-> model.input_cost_per_image,
             input_cost_per_audio_second |-> model.input_cost_per_audio_per_second,
             input_cost_per_video_second |-> model.input_cost_per_video_per_second,
             tiered_pricing         |-> model.tiered_pricing]]

\* lines 207-270: the ChatModel built from a ChatCompletionModel (its limits and
\* capabilities, which calculate_cost does not read, are left out)
from_chat_completion_model(name, model) ==
    [name |-> name,
     provider |-> model.litellm_provider,
     mode |-> model.mode,
     pricing |->
        [input_cost_per_token   |-> model.input_cost_per_token,
         output_cost_per_token  |-> model.output_cost_per_token,
         output_cost_per_reasoning_token |-> model.output_cost_per_reasoning_token,
         input_cost_above_128k  |-> model.input_cost_per_token_above_128k_tokens,
         output_cost_above_128k |-> model.output_cost_per_token_above_128k_tokens,
         input_cost_above_200k  |-> model.input_cost_per_token_above_200k_tokens,
         output_cost_above_200k |-> model.output_cost_per_token_above_200k_tokens,
         input_cost_priority    |-> model.input_cost_per_token_priority,
         output_cost_priority   |-> model.output_cost_per_token_priority,
         input_cost_flex        |-> model.input_cost_per_token_flex,
         output_cost_flex       |-> model.output_cost_per_token_flex,
         input_cost_per_image   |-> model.input_cost_per_image,
         input_cost_per_audio_second |-> model.input_cost_per_audio_per_second,
         input_cost_per_video_second |-> model.input_cost_per_video_per_second,
         tiered_pricing         |-> model.tiered_pricing]]

\* A ChatCompletionModel is at hand; nothing has been converted or priced yet.
InitConvert ==
    /\ \E m \in ChatCompletionModel : completion_model = Some(m)
    /\ chat_model = None
    /\ pricing = NoPricing
    /\ called = FALSE
    /\ input_tokens = 0
    /\ output_tokens = 0
    /\ input_cost = None
    /\ output_cost = None
    /\ result = None
    /\ RegIdle
    /\ DiscIdle

\* ChatModel.from_chat_completion_model(name, model); `pricing` is from then on
\* the pricing of the ChatModel returned
Convert ==
    /\ chat_model = None
    /\ completion_model # None
    /\ LET cm == from_chat_completion_model("gpt-4", Val(completion_model))
       IN  /\ chat_model' = Some(cm)
           /\ pricing' = cm.pricing
    /\ UNCHANGED <<completion_model, called, input_tokens, output_tokens, input_cost,
                   output_cost, result, regVars, query, discVars>>

\* chat_model.pricing.calculate_cost(input_tokens, output_tokens), called once
\* on each converted record
ConvertedCost ==
    /\ chat_model # None
    /\ ~called
    /\ calculate_cost

NextConvert == Convert \/ ConvertedCost

SpecConvert == InitConvert /\ [][NextConvert]_vars

-----------------------------------------------------------------------------
(* ModelRegistry.from_dict *)

\* Largest number of entries of the raw mapping.
MaxEntries == 2

RESERVED == "sample_spec"

\* Keys of the raw mapping: the reserved placeholder and two model names.
ModelNames == <<"gpt-4", "claude-3">>

Names == {RESERVED} \cup {ModelNames[i] : i \in 1..Len(ModelNames)}

\* The closed enumeration of modes the dispatch names.
ModelMode ==
    {"chat", "completion", "embedding", "audio_transcription", "audio_speech",
     "image_generation", "video_generation", "rerank", "responses", "moderation"}

\* Mode strings a raw entry may carry: the recognized ones and one that is not.
ModeStrings == ModelMode \cup {"ocr"}

\* A raw value config_data, by what from_dict reads of it:
\*   shape          "dict" | "str" | "int" | "null"
\*   contains_mode  the value of `"mode" in config_data` where that test is
\*                  defined: a key of the dict, a substring of the str
\*   mode           config_data["mode"] of a dict that has the key
\*   cost           whether the cost fields are numeric (numbers or numeric
\*                  strings) or hold a non-numeric text such as "contact sales"
\*   litellm_provider, input_cost_per_token, input_cost_per_second
\*                  the values of these keys of a dict once parsed (None: the
\*                  key is absent); fixed here, varied for the queries below
ConfigData ==
    [shape : {"dict"}, contains_mode : {TRUE}, mode : ModeStrings,
     cost : {"numeric", "non_numeric"}, litellm_provider : {"openai"},
     input_cost_per_token : {None}, input_cost_per_second : {None}]
    \cup [shape : {"dict"}, contains_mode : {FALSE}, mode : {"-"},
          cost : {"numeric", "non_numeric"}, litellm_provider : {"openai"},
          input_cost_per_token : {None}, input_cost_per_second : {None}]
    \cup [shape : {"str"}, contains_mode : BOOLEAN, mode : {"-"}, cost : {"-"},
          litellm_provider : {"-"}, input_cost_per_token : {None},
          input_cost_per_second : {None}]
    \cup [shape : {"int", "null"}, contains_mode : {FALSE}, mode : {"-"}, cost : {"-"},
          litellm_provider : {"-"}, input_cost_per_token : {None},
          input_cost_per_second : {None}]

\* The key sequences of the mappings: keys are unique, in any order.
KeySequences ==
    {ks \in UNION {[1..k -> Names] : k \in 0..MaxEntries} :
        \A i, j \in 1..Len(ks) : i # j => ks[i] # ks[j]}

\* The item sequence <<name, config_data>> of the mapping with keys ks and values cs.
RawMapping(ks, cs) == [i \in 1..Len(ks) |-> <<ks[i], cs[i]>>]

Keys(items) == {items[i][1] : i \in 1..Len(items)}

Range(seq) == {seq[i] : i \in 1..Len(seq)}

\* Faulty variant of DictSet (used to test the properties): the assignment is
\* lost.
DictSet_Lost(items, name, value) == items

\* models[name] = model_config on an insertion-ordered dict (line 141)
DictSet(items, name, value) ==
    IF name \in Keys(items)
    THEN [i \in 1..Len(items) |->
             IF items[i][1] = name THEN <<name, value>> ELSE items[i]]
    ELSE Append(items, <<name, value>>)

\* Faulty variant of ShouldSkip (used to test the properties): the reserved name is not tested.
ShouldSkip_ModeOnly(name, config_data) == ~config_data.contains_mode

\* line 112: "mode" not in config_data or name == "sample_spec"
\* (evaluated for a value on which `in` is defined)
ShouldSkip(name, config_data) ==
    ~config_data.contains_mode \/ name = RESERVED

\* Faulty variant of Dispatch (used to test the properties): the branch for "responses" is missing.
Dispatch_NoResponses(mode) ==
    IF mode \in {"chat", "completion"} THEN "ChatCompletionModel"
    ELSE IF mode = "embedding" THEN "EmbeddingModel"
    ELSE IF mode = "audio_transcription" THEN "AudioTranscriptionModel"
    ELSE IF mode = "audio_speech" THEN "AudioSpeechModel"
    ELSE IF mode = "image_generation" THEN "ImageGenerationModel"
    ELSE IF mode = "video_generation" THEN "VideoGenerationModel"
    ELSE IF mode = "rerank" THEN "RerankModel"
    ELSE IF mode = "moderation" THEN "ModerationModel"
    ELSE "ChatCompletionModel"

\* lines 119-139: the variant class whose model_validate is called
Dispatch(mode) ==
    IF mode \in {"chat", "completion"} THEN "ChatCompletionModel"
    ELSE IF mode = "embedding" THEN "EmbeddingModel"
    ELSE IF mode = "audio_transcription" THEN "AudioTranscriptionModel"
    ELSE IF mode = "audio_speech" THEN "AudioSpeechModel"
    ELSE IF mode = "image_generation" THEN "ImageGenerationModel"
    ELSE IF mode = "video_generation" THEN "VideoGenerationModel"
    ELSE IF mode = "rerank" THEN "RerankModel"
    ELSE IF mode = "responses" THEN "ResponsesModel"
    ELSE IF mode = "moderation" THEN "ModerationModel"
    ELSE "ChatCompletionModel"

\* The record a variant schema builds from a dict: its class, its mode and the
\* fields the queries read.
BuildConfig(variant, config_data) ==
    [variant               |-> variant,
     mode                  |-> config_data.mode,
     litellm_provider      |-> config_data.litellm_provider,
     input_cost_per_token  |-> config_data.input_cost_per_token,
     input_cost_per_second |-> config_data.input_cost_per_second]

\* <Variant>.model_validate(config_data): the variant schemas live in
\* tokonomics.data_models.  Validation raises for a cost that is present but
\* not numeric and for a mode that is no member of the ModelMode enumeration
\* (the record's mode field is a ModelMode); otherwise it builds the record of
\* that variant.
model_validate(variant, config_data) ==
    [ok     |-> config_data.cost = "numeric" /\ config_data.mode \in ModelMode,
     config |-> BuildConfig(variant, config_data)]

NoConfig ==
    [variant |-> "-", mode |-> "-", litellm_provider |-> "-",
     input_cost_per_token |-> None, input_cost_per_second |-> None]

\* Faulty variant of TryBody (used to test the properties): the record is
\* stored whether or not validation succeeded.
TryBody_StoreUnvalidated(name, config_data) ==
    IF config_data.shape \in {"int", "null"}
    THEN [kind |-> "raise", exc |-> "TypeError", variant |-> "-", config |-> NoConfig]
    ELSE IF ShouldSkip(name, config_data)
    THEN [kind |-> "continue", exc |-> "-", variant |-> "-", config |-> NoConfig]
    ELSE IF config_data.shape = "str"
    THEN [kind |-> "raise", exc |-> "TypeError", variant |-> "-", config |-> NoConfig]
    ELSE LET variant == Dispatch(config_data.mode)
         IN  [kind |-> "stored", exc |-> "-", variant |-> variant,
              config |-> model_validate(variant, config_data).config]

\* lines 111-141: the body of the try for one item.  kind is "continue" (line
\* 114), "stored" (line 141) or "raise" with the exception class; variant is the
\* class whose model_validate was called, "-" when none was.
TryBody(name, config_data) ==
    IF config_data.shape \in {"int", "null"}
    THEN \* `"mode" not in config_data` raises TypeError, before the name is tested
         [kind |-> "raise", exc |-> "TypeError", variant |-> "-", config |-> NoConfig]
    ELSE IF ShouldSkip(name, config_data)
    THEN [kind |-> "continue", exc |-> "-", variant |-> "-", config |-> NoConfig]
    ELSE IF config_data.shape = "str"
    THEN \* config_data["mode"] on a str raises TypeError
         [kind |-> "raise", exc |-> "TypeError", variant |-> "-", config |-> NoConfig]
    ELSE LET variant == Dispatch(config_data.mode)
             v == model_validate(variant, config_data)
         IN  IF v.ok
             THEN [kind |-> "stored", exc |-> "-", variant |-> variant, config |-> v.config]
             ELSE [kind |-> "raise", exc |-> "ValidationError", variant |-> variant,
                   config |-> NoConfig]

\* Faulty variant of Catches (used to test the properties): `except ValueError` (pydantic's ValidationError is one,
\* TypeError is not).
Catches_ValueError(exc) == exc = "ValidationError"

\* line 143: `except Exception` catches TypeError and ValidationError alike
Catches(exc) == exc \in {"TypeError", "ValidationError"}

CostIdle ==
    /\ pricing = NoPricing
    /\ called = FALSE
    /\ input_tokens = 0
    /\ output_tokens = 0
    /\ input_cost = None
    /\ output_cost = None
    /\ result = None
    /\ completion_model = None
    /\ chat_model = None

\* lines 103-107: from_dict(data) entered, the three locals empty
Init ==
    /\ \E ks \in KeySequences : \E cs \in [1..Len(ks) -> ConfigData] :
           data = RawMapping(ks, cs)
    /\ pos = 0
    /\ models = <<>>
    /\ failed_models = <<>>
    /\ dropped_models = <<>>
    /\ validated = <<>>
    /\ stdout = <<>>
    /\ loaded = None
    /\ pc = "loop"
    /\ query = NoQuery
    /\ DiscIdle
    /\ CostIdle

\* line 146: the number of failures that get a message of their own
FailureMessageLimit == 5

\* Faulty variant of ShowsFailure (used to test the properties): the test is
\* made before the failure is appended, so one message more is printed.
ShowsFailure_BeforeAppend(count) == count - 1 <= FailureMessageLimit

\* line 146: len(failed_models) <= 5, with the new failure already appended
ShowsFailure(count) == count <= FailureMessageLimit

\* line 147: print(f"Failed to parse model {name}: {e}")
FailureMessage(name) ==
    [line |-> "Failed to parse model", name |-> name, count |-> 0, total |-> 0]

\* line 150: print(f"Dropped {len(dropped_models)} models without mode field")
DroppedLine(count) ==
    [line |-> "Dropped", name |-> "-", count |-> count, total |-> 0]

\* line 152: print(f"Failed to parse {len(failed_models)} models out of {len(data)}")
FailedLine(count, total) ==
    [line |-> "Failed to parse", name |-> "-", count |-> count, total |-> total]

\* lines 109-147: one iteration of the for loop
ProcessEntry ==
    /\ pc = "loop"
    /\ pos < Len(data)
    /\ LET name == data[pos + 1][1]
           config_data == data[pos + 1][2]
           o == TryBody(name, config_data)
           caught == o.kind = "raise" /\ Catches(o.exc)
           escaped == o.kind = "raise" /\ ~Catches(o.exc)
       IN  /\ pos' = pos + 1
           /\ validated' = IF o.variant # "-"
                           THEN Append(validated, <<name, o.variant>>)
                           ELSE validated
           /\ dropped_models' = IF o.kind = "continue"
                                THEN Append(dropped_models, name)
                                ELSE dropped_models
           /\ models' = IF o.kind = "stored"
                        THEN DictSet(models, name, o.config)
                        ELSE models
           /\ failed_models' = IF caught THEN Append(failed_models, name)
                               ELSE failed_models
           /\ stdout' = IF caught /\ ShowsFailure(Len(failed_models) + 1)
                         THEN Append(stdout, FailureMessage(name))
                         ELSE stdout
           /\ pc' = IF escaped THEN "raised" ELSE "loop"
    /\ UNCHANGED <<data, loaded, query, costVars, discVars>>

\* lines 149-154: the loop is over, the registry is built from models
Return ==
    /\ pc = "loop"
    /\ pos = Len(data)
    /\ pc' = "done"
    /\ stdout' = stdout
                  \o (IF dropped_models # <<>>
                      THEN <<DroppedLine(Len(dropped_models))>> ELSE <<>>)
                  \o (IF failed_models # <<>>
                      THEN <<FailedLine(Len(failed_models), Len(data))>> ELSE <<>>)
    /\ UNCHANGED <<data, pos, models, failed_models, dropped_models, validated, loaded,
                   query, costVars, discVars>>

Next == ProcessEntry \/ Return

Spec == Init /\ [][Next]_vars

-----------------------------------------------------------------------------
(* load_model_config *)

\* Faulty variant of load_model_config (used to test the properties): the
\* parser is chosen by the dispatch of from_dict short of its responses branch.
load_model_config_NoResponses(config_data) ==
    LET mode == IF config_data.contains_mode THEN config_data.mode ELSE "chat"
        variant == Dispatch_NoResponses(mode)
    IN  [variant |-> variant,
         kinds |-> IF ~config_data.contains_mode
                   THEN IF config_data.cost = "numeric" THEN {"return", "raise"}
                        ELSE {"raise"}
                   ELSE IF model_validate(variant, config_data).ok THEN {"return"}
                        ELSE {"raise"}]

\* lines 164-186: load_model_config(config_data) on a dict.  mode is
\* config_data.get("mode", "chat"); the variant is chosen by the chain of ifs
\* of lines 168-186 and its model_validate is called.  Whether a chat record
\* validates without a mode key is decided by the variant schema
\* (tokonomics.data_models): both ends are possible for such a dict.
load_model_config(config_data) ==
    LET mode == IF config_data.contains_mode THEN config_data.mode ELSE "chat"
        variant ==
            CASE mode \in {"chat", "completion"} -> "ChatCompletionModel"
              [] mode = "embedding" -> "EmbeddingModel"
              [] mode = "audio_transcription" -> "AudioTranscriptionModel"
              [] mode = "audio_speech" -> "AudioSpeechModel"
              [] mode = "image_generation" -> "ImageGenerationModel"
              [] mode = "video_generation" -> "VideoGenerationModel"
              [] mode = "rerank" -> "RerankModel"
              [] mode = "responses" -> "ResponsesModel"
              [] mode = "moderation" -> "ModerationModel"
              [] OTHER -> "ChatCompletionModel"
    IN  [variant |-> variant,
         kinds |-> IF ~config_data.contains_mode
                   THEN IF config_data.cost = "numeric" THEN {"return", "raise"}
                        ELSE {"raise"}
                   ELSE IF model_validate(variant, config_data).ok THEN {"return"}
                        ELSE {"raise"}]

\* The attribute dicts among the raw values.
AttributeDicts == {c \in ConfigData : c.shape = "dict"}

\* from_dict(data) entered on a raw mapping of one attribute dict, on which
\* load_model_config is called as well
InitLoad ==
    /\ \E name \in Names, config_data \in AttributeDicts :
           data = <<<<name, config_data>>>>
    /\ pos = 0
    /\ models = <<>>
    /\ failed_models = <<>>
    /\ dropped_models = <<>>
    /\ validated = <<>>
    /\ stdout = <<>>
    /\ loaded = None
    /\ pc = "loop"
    /\ query = NoQuery
    /\ DiscIdle
    /\ CostIdle

\* load_model_config(config_data) on the attribute dict of the mapping
Call_load_model_config ==
    /\ loaded = None
    /\ \E i \in 1..Len(data) :
           LET o == load_model_config(data[i][2])
           IN  \E kind \in o.kinds :
                   loaded' = Some([config_data |-> data[i][2], variant |-> o.variant,
                                   kind |-> kind])
    /\ UNCHANGED <<data, pos, models, failed_models, dropped_models, validated, stdout,
                   pc, query, costVars, discVars>>

NextLoad == ProcessEntry \/ Return \/ Call_load_model_config

SpecLoad == InitLoad /\ [][NextLoad]_vars

-----------------------------------------------------------------------------
(* ModelRegistry queries (registry.py lines 38-100) *)

\* A query is modelled by what it hands back and by what it leaves in
\* self.models: ret is the returned value, exc the exception class that
\* escaped ("none": the call returned), models the mapping afterwards.

\* Faulty variant of get_model (used to test the properties): self.models[name],
\* which raises KeyError for a missing key.
get_model_Subscript(self_models, name) ==
    LET hits == SelectSeq(self_models, LAMBDA item : item[1] = name)
    IN  [ret    |-> IF hits = <<>> THEN None ELSE Some(hits[1][2]),
         exc    |-> IF hits = <<>> THEN "KeyError" ELSE "none",
         models |-> self_models]

\* Faulty variant of get_model (used to test the properties):
\* self.models.pop(name, None), which takes the record out of the mapping.
get_model_Pop(self_models, name) ==
    LET hits == SelectSeq(self_models, LAMBDA item : item[1] = name)
    IN  [ret    |-> IF hits = <<>> THEN None ELSE Some(hits[1][2]),
         exc    |-> "none",
         models |-> SelectSeq(self_models, LAMBDA item : item[1] # name)]

\* lines 38-40: self.models.get(name), the key compared as it is written
get_model(self_models, name) ==
    LET hits == SelectSeq(self_models, LAMBDA item : item[1] = name)
    IN  [ret    |-> IF hits = <<>> THEN None ELSE Some(hits[1][2]),
         exc    |-> "none",
         models |-> self_models]

\* Faulty variant of get_models_by_provider (used to test the properties): the
\* scan stops at the first match.
get_models_by_provider_FirstOnly(self_models, provider) ==
    LET hits == SelectSeq(self_models, LAMBDA item : item[2].litellm_provider = provider)
    IN  [ret    |-> IF hits = <<>> THEN <<>> ELSE <<hits[1]>>,
         exc    |-> "none",
         models |-> self_models]

\* lines 42-48: a new dict of the items whose litellm_provider is provider
get_models_by_provider(self_models, provider) ==
    [ret    |-> SelectSeq(self_models, LAMBDA item : item[2].litellm_provider = provider),
     exc    |-> "none",
     models |-> self_models]

\* lines 50-54: a new dict of the items whose mode is mode
get_models_by_mode(self_models, mode) ==
    [ret    |-> SelectSeq(self_models, LAMBDA item : item[2].mode = mode),
     exc    |-> "none",
     models |-> self_models]

\* lines 56-62: the items that are instances of ChatCompletionModel
get_chat_models(self_models) ==
    [ret    |-> SelectSeq(self_models, LAMBDA item : item[2].variant = "ChatCompletionModel"),
     exc    |-> "none",
     models |-> self_models]

\* lines 64-70: the items that are instances of EmbeddingModel
get_embedding_models(self_models) ==
    [ret    |-> SelectSeq(self_models, LAMBDA item : item[2].variant = "EmbeddingModel"),
     exc    |-> "none",
     models |-> self_models]

\* lines 72-74: the set of the providers of the values
get_providers(self_models) ==
    [ret    |-> {self_models[i][2].litellm_provider : i \in 1..Len(self_models)},
     exc    |-> "none",
     models |-> self_models]

\* line 96: Decimal("inf"), which compares greater than every finite cost
DecimalInf == None

\* lines 84-96: the sort key of one (name, model) item.  hasattr(model,
\* "input_cost_per_token") is false exactly for a record without that field,
\* which the model holds as None as well.
get_cost(item) ==
    LET model == item[2]
    IN  IF model.input_cost_per_token # None
        THEN model.input_cost_per_token
        ELSE IF model.variant = "AudioTranscriptionModel"
                /\ model.input_cost_per_second # None
        THEN model.input_cost_per_second
        ELSE DecimalInf

\* Faulty variant of KeyLess (used to test the properties): a <= b, so that a
\* later item of equal key replaces the best so far.
KeyLess_OrEqual(a, b) == b = DecimalInf \/ (a # DecimalInf /\ Val(a) <= Val(b))

\* a < b on Decimal keys, one or both of which may be Decimal("inf")
KeyLess(a, b) == a # DecimalInf /\ (b = DecimalInf \/ Val(a) < Val(b))

\* line 98: min(items, key=get_cost) walks the items in order and replaces the
\* best so far only by an item whose key is strictly smaller.
RECURSIVE MinFrom(_, _, _)
MinFrom(items, i, best) ==
    IF i > Len(items)
    THEN best
    ELSE MinFrom(items, i + 1,
                 IF KeyLess(get_cost(items[i]), get_cost(best)) THEN items[i] ELSE best)

MinByKey(items) == MinFrom(items, 2, items[1])

\* lines 76-99
get_cheapest_model_by_mode(self_models, mode) ==
    LET by_mode == get_models_by_mode(self_models, mode).ret
    IN  [ret    |-> IF by_mode = <<>> THEN None ELSE Some(MinByKey(by_mode)),
         exc    |-> "none",
         models |-> self_models]

\* The arguments the queries are called with.
QueryNames == Names \cup {"GPT-4"}
LookupNames == QueryNames \cup {"unknown-model"}
ProviderArgs == {"openai", "anthropic", "mistral"}
ModeArgs == {"chat", "embedding", "audio_transcription"}

\* One dict entry with a mode key, as the queried registries are built from.
QueryEntry(mode, cost, litellm_provider) ==
    [shape |-> "dict", contains_mode |-> TRUE, mode |-> mode, cost |-> cost,
     litellm_provider |-> litellm_provider, input_cost_per_token |-> None,
     input_cost_per_second |-> None]

\* The raw entries of the registries that are queried: entries of two modes and
\* two providers that parse, an entry with a mode outside the enumeration, an
\* entry with a non-numeric cost, a dict without a mode key, and a null.
QueryConfigData ==
    {QueryEntry("chat", "numeric", "openai"),
     QueryEntry("chat", "numeric", "anthropic"),
     QueryEntry("embedding", "numeric", "openai"),
     QueryEntry("embedding", "numeric", "anthropic"),
     QueryEntry("ocr", "numeric", "openai"),
     QueryEntry("chat", "non_numeric", "openai"),
     [shape |-> "dict", contains_mode |-> FALSE, mode |-> "-", cost |-> "numeric",
      litellm_provider |-> "openai", input_cost_per_token |-> None,
      input_cost_per_second |-> None],
     [shape |-> "null", contains_mode |-> FALSE, mode |-> "-", cost |-> "-",
      litellm_provider |-> "-", input_cost_per_token |-> None,
      input_cost_per_second |-> None]}

QueryKeySequences ==
    {ks \in UNION {[1..k -> QueryNames] : k \in 0..MaxEntries} :
        \A i, j \in 1..Len(ks) : i # j => ks[i] # ks[j]}

\* from_dict(data) entered on a raw mapping of QueryConfigData entries
InitQuery ==
    /\ \E ks \in QueryKeySequences : \E cs \in [1..Len(ks) -> QueryConfigData] :
           data = RawMapping(ks, cs)
    /\ pos = 0
    /\ models = <<>>
    /\ failed_models = <<>>
    /\ dropped_models = <<>>
    /\ validated = <<>>
    /\ stdout = <<>>
    /\ loaded = None
    /\ pc = "loop"
    /\ query = NoQuery
    /\ DiscIdle
    /\ CostIdle

\* One call of a query method on the registry that from_dict returned.
Answer(op, arg, r) ==
    /\ pc = "done"
    /\ query' = [op |-> op, arg |-> arg, ret |-> r.ret, exc |-> r.exc]
    /\ models' = r.models
    /\ UNCHANGED <<data, pos, failed_models, dropped_models, validated, stdout, loaded,
                   pc, costVars, discVars>>

Call_get_model ==
    \E name \in LookupNames : Answer("get_model", name, get_model(models, name))

Call_get_models_by_provider ==
    \E provider \in ProviderArgs :
        Answer("get_models_by_provider", provider, get_models_by_provider(models, provider))

Call_get_models_by_mode ==
    \E mode \in ModeArgs : Answer("get_models_by_mode", mode, get_models_by_mode(models, mode))

Call_get_chat_models == Answer("get_chat_models", "-", get_chat_models(models))

Call_get_embedding_models == Answer("get_embedding_models", "-", get_embedding_models(models))

Call_get_providers == Answer("get_providers", "-", get_providers(models))

Call_get_cheapest_model_by_mode ==
    \E mode \in ModeArgs :
        Answer("get_cheapest_model_by_mode", mode, get_cheapest_model_by_mode(models, mode))

NextQuery ==
    \/ ProcessEntry
    \/ Return
    \/ Call_get_model
    \/ Call_get_models_by_provider
    \/ Call_get_models_by_mode
    \/ Call_get_chat_models
    \/ Call_get_embedding_models
    \/ Call_get_providers
    \/ Call_get_cheapest_model_by_mode

SpecQuery == InitQuery /\ [][NextQuery]_vars

\* The registries get_cheapest_model_by_mode is examined on: up to
\* MaxCandidates records, named in insertion order, of two modes, each with or
\* without a per-token and a per-second input cost.
MaxCandidates == 3
CandidateNames == <<"A", "B", "C", "D", "E">>

CheapestConfigData ==
    [shape : {"dict"}, contains_mode : {TRUE}, mode : {"chat", "audio_transcription"},
     cost : {"numeric"}, litellm_provider : {"openai"},
     input_cost_per_token : OptRate, input_cost_per_second : {None, Some(1)}]

\* from_dict(data) entered on a raw mapping of CheapestConfigData entries
InitCheapest ==
    /\ \E k \in 0..MaxCandidates : \E cs \in [1..k -> CheapestConfigData] :
           data = RawMapping(SubSeq(CandidateNames, 1, k), cs)
    /\ pos = 0
    /\ models = <<>>
    /\ failed_models = <<>>
    /\ dropped_models = <<>>
    /\ validated = <<>>
    /\ stdout = <<>>
    /\ loaded = None
    /\ pc = "loop"
    /\ query = NoQuery
    /\ DiscIdle
    /\ CostIdle

NextCheapest == ProcessEntry \/ Return \/ Call_get_cheapest_model_by_mode

SpecCheapest == InitCheapest /\ [][NextCheapest]_vars

-----------------------------------------------------------------------------
(* ModelRegistry.from_dict on a mapping long enough to exceed the limit on *)
(* failure messages                                                        *)

\* Largest number of entries of the raw mappings whose output is examined.
MaxImported == 7

ImportNames == <<"m1", "m2", "m3", "m4", "m5", "m6", "m7", "m8", "m9">>

\* The raw entries of those mappings: one that parses, one that fails in its
\* parser, one without a mode key.
ReportConfigData ==
    {QueryEntry("chat", "numeric", "openai"),
     QueryEntry("chat", "non_numeric", "openai"),
     [shape |-> "dict", contains_mode |-> FALSE, mode |-> "-", cost |-> "numeric",
      litellm_provider |-> "openai", input_cost_per_token |-> None,
      input_cost_per_second |-> None]}

\* from_dict(data) entered on a raw mapping of ReportConfigData entries
InitReport ==
    /\ \E k \in 0..MaxImported : \E cs \in [1..k -> ReportConfigData] :
           data = RawMapping(SubSeq(ImportNames, 1, k), cs)
    /\ pos = 0
    /\ models = <<>>
    /\ failed_models = <<>>
    /\ dropped_models = <<>>
    /\ validated = <<>>
    /\ stdout = <<>>
    /\ loaded = None
    /\ pc = "loop"
    /\ query = NoQuery
    /\ DiscIdle
    /\ CostIdle

SpecReport == InitReport /\ [][Next]_vars

-----------------------------------------------------------------------------
(* get_all_models and get_all_models_sync (model_discovery/__init__.py) *)

\* lines 44-55: the keys of _PROVIDER_MAP in their order; the first MaxSources
\* of them are modelled.
MaxSources == 3
ProviderNames == <<"anthropic", "groq", "mistral", "openai">>
PROVIDER_MAP == SubSeq(ProviderNames, 1, MaxSources)

\* base.py: a ModelInfo, reduced to the fields the aggregators read or keep apart
ModelInfo(provider, id, is_deprecated) ==
    [provider |-> provider, id |-> id, is_deprecated |-> is_deprecated]

\* What a provider's API lists: a current, a deprecated and another current model.
Catalogue(provider) ==
    <<ModelInfo(provider, 1, FALSE), ModelInfo(provider, 2, TRUE), ModelInfo(provider, 3, FALSE)>>

\* A tag that is no key of _PROVIDER_MAP.
UnknownTag == "unknown"

\* What happens when the class of a tag is looked up, constructed and asked
\* for its models.  stage is where an exception is raised ("none": nowhere),
\* available is what the adapter's is_available() answers (its credential or
\* configuration is present):
\*   - it returns nothing, or its catalogue;
\*   - its constructor raises RuntimeError for a missing token
\*     (github_provider.py line 43);
\*   - it is constructed without its credential and get_models raises for it;
\*   - get_models raises another Exception (a timeout, a network error and a
\*     malformed response all arrive as one);
\*   - the fetch is cancelled: asyncio.CancelledError, which is no Exception,
\*     is raised inside it;
\*   - the tag is unknown: _PROVIDER_MAP[tag] raises KeyError.
SourceBehaviours(tag) ==
    IF tag = UnknownTag
    THEN {[stage |-> "lookup", exc |-> "KeyError", available |-> FALSE, models |-> <<>>]}
    ELSE {[stage |-> "none", exc |-> "-", available |-> TRUE, models |-> <<>>],
          [stage |-> "none", exc |-> "-", available |-> TRUE, models |-> Catalogue(tag)],
          [stage |-> "ctor", exc |-> "RuntimeError", available |-> FALSE, models |-> <<>>],
          [stage |-> "fetch", exc |-> "RuntimeError", available |-> FALSE, models |-> <<>>],
          [stage |-> "fetch", exc |-> "TimeoutException", available |-> TRUE, models |-> <<>>],
          [stage |-> "fetch", exc |-> "CancelledError", available |-> TRUE, models |-> <<>>]}

\* The tags a caller passes, in the order in which they are passed: the
\* aggregators treat all known tags alike, so they are taken in the order of
\* the map, and which source behaves how is chosen per position.
TagOrder == PROVIDER_MAP \o <<UnknownTag>>

\* The providers argument: None, or a sequence (empty or not) of at most
\* MaxSources tags.
Selections ==
    {None} \cup
    {Some(SelectSeq(TagOrder, LAMBDA p : p \in tags)) :
        tags \in {t \in SUBSET Range(TagOrder) : Cardinality(t) <= MaxSources}}

\* Faulty variant of selected_providers (used to test the properties):
\* `providers if providers is not None else list(_PROVIDER_MAP.keys())`.
selected_providers_NoneOnly == IF providers = None THEN PROVIDER_MAP ELSE Val(providers)

\* lines 77, 126: providers or list(_PROVIDER_MAP.keys()); None and an empty
\* sequence are both falsy.
\* Faulty variant of selected_providers (used to test the properties): the
\* selection is ignored and every adapter of the table is taken.
selected_providers_WholeTable == PROVIDER_MAP

selected_providers ==
    IF providers = None \/ Val(providers) = <<>> THEN PROVIDER_MAP ELSE Val(providers)

\* Faulty variant of FetchCatches (used to test the properties):
\* `except RuntimeError`.
FetchCatches_RuntimeError(exc) == exc = "RuntimeError"

\* lines 89, 138: `except Exception`
FetchCatches(exc) == exc \in {"KeyError", "RuntimeError", "TimeoutException"}

\* Faulty variant of fetch_provider_models (used to test the properties): the
\* deprecation filter is applied whatever include_deprecated says.
fetch_provider_models_AlwaysFilter(i) ==
    LET b == source[i]
    IN  IF b.stage # "none"
        THEN IF FetchCatches(b.exc)
             THEN [kind |-> "return", exc |-> "-", value |-> None,
                   attempted |-> b.stage = "fetch"]
             ELSE [kind |-> "raise", exc |-> b.exc, value |-> None,
                   attempted |-> b.stage = "fetch"]
        ELSE [kind |-> "return", exc |-> "-", attempted |-> TRUE,
              value |-> Some(SelectSeq(b.models, LAMBDA model : ~model.is_deprecated))]

\* lines 80-93, 129-142: fetch_provider_models for the i-th selected provider.
\* kind is "return" with the value (None, or Some of the list) or "raise" with
\* the exception that leaves the function; attempted tells whether get_models
\* was called (lines 86, 135), which it is once the lookup and the constructor
\* of lines 85, 134 have returned.
fetch_provider_models(i) ==
    LET b == source[i]
    IN  IF b.stage # "none"
        THEN IF FetchCatches(b.exc)
             THEN [kind |-> "return", exc |-> "-", value |-> None,
                   attempted |-> b.stage = "fetch"]
             ELSE [kind |-> "raise", exc |-> b.exc, value |-> None,
                   attempted |-> b.stage = "fetch"]
        ELSE [kind |-> "return", exc |-> "-", attempted |-> TRUE,
              value |-> Some(IF include_deprecated
                             THEN b.models
                             ELSE SelectSeq(b.models, LAMBDA model : ~model.is_deprecated))]

\* lines 106, 152: `if provider_models:` is false for None and for an empty list
Truthy(value) == value # None /\ Val(value) # <<>>

\* Faulty variant of Extend (used to test the properties): the records are
\* inserted one by one at the front.
RECURSIVE Extend_AtFront(_, _)
Extend_AtFront(list, provider_models) ==
    IF provider_models = <<>>
    THEN list
    ELSE Extend_AtFront(<<Head(provider_models)>> \o list, Tail(provider_models))

\* Faulty variant of Extend (used to test the properties): the list is
\* replaced by the new records.
Extend_Replace(list, provider_models) == provider_models

\* lines 107, 153: all_models.extend(provider_models)
Extend(list, provider_models) == list \o provider_models

Finished(i) == fetches[i].state \in {"returned", "raised"}

\* Faulty variant of GatherReady (used to test the properties): the first
\* finished fetch ends the wait.
GatherReady_Any == \E i \in 1..Len(fetches) : Finished(i)

\* lines 145-148: gather hands over its results when every awaitable is done
GatherReady == \A i \in 1..Len(fetches) : Finished(i)

\* lines 77-101, 126-148: the aggregator was called and one
\* fetch_provider_models per selected provider has been handed to gather
\* (get_all_models) or submitted to the executor (get_all_models_sync); the
\* fetches run side by side and finish in any order.
InitDiscovery ==
    /\ aggregator \in {"get_all_models", "get_all_models_sync"}
    /\ providers \in Selections
    /\ include_deprecated \in BOOLEAN
    /\ \E bs \in [1..Len(selected_providers) ->
                    UNION {SourceBehaviours(p) : p \in Range(TagOrder)}] :
           /\ \A i \in 1..Len(bs) : bs[i] \in SourceBehaviours(selected_providers[i])
           /\ source = bs
    /\ fetches = [i \in 1..Len(selected_providers) |->
                     [state |-> "running", exc |-> "-", value |-> None,
                      attempted |-> FALSE]]
    /\ consumed = <<>>
    /\ all_models = <<>>
    /\ dpc = "waiting"
    /\ CostIdle
    /\ RegIdle

\* The i-th fetch_provider_models returns or raises.
FinishFetch ==
    \E i \in 1..Len(fetches) :
        /\ fetches[i].state = "running"
        /\ LET o == fetch_provider_models(i)
           IN  fetches' = [fetches EXCEPT ![i] =
                              [state |-> IF o.kind = "return" THEN "returned" ELSE "raised",
                               exc   |-> o.exc,
                               value |-> o.value,
                               attempted |-> o.attempted]]
        /\ UNCHANGED <<aggregator, providers, include_deprecated, source, consumed,
                       all_models, dpc, costVars, regVars, query>>

\* lines 145-148: every awaitable has returned; gather returns their values in
\* the order of selected_providers.
GatherResults ==
    /\ aggregator = "get_all_models"
    /\ dpc = "waiting"
    /\ GatherReady
    /\ \A i \in 1..Len(fetches) : fetches[i].state # "raised"
    /\ dpc' = "collect"
    /\ UNCHANGED <<aggregator, providers, include_deprecated, source, fetches, consumed,
                   all_models, costVars, regVars, query>>

\* lines 145-148 with return_exceptions=False: the exception of an awaitable
\* that raised or was cancelled is propagated to the awaiting get_all_models at
\* once; the other awaitables are not cancelled and go on.
GatherPropagate ==
    /\ aggregator = "get_all_models"
    /\ dpc = "waiting"
    /\ \E i \in 1..Len(fetches) : fetches[i].state = "raised"
    /\ dpc' = "raised"
    /\ UNCHANGED <<aggregator, providers, include_deprecated, source, fetches, consumed,
                   all_models, costVars, regVars, query>>

\* lines 151-153: one iteration of `for provider_models in results`
CollectResult ==
    /\ aggregator = "get_all_models"
    /\ dpc = "collect"
    /\ Len(consumed) < Len(fetches)
    /\ LET i == Len(consumed) + 1
           provider_models == fetches[i].value
       IN  /\ consumed' = Append(consumed, i)
           /\ all_models' = IF Truthy(provider_models)
                            THEN Extend(all_models, Val(provider_models))
                            ELSE all_models
    /\ UNCHANGED <<aggregator, providers, include_deprecated, source, fetches, dpc,
                   costVars, regVars, query>>

\* line 155: return all_models
ReturnAsync ==
    /\ aggregator = "get_all_models"
    /\ dpc = "collect"
    /\ Len(consumed) = Len(fetches)
    /\ dpc' = "returned"
    /\ UNCHANGED <<aggregator, providers, include_deprecated, source, fetches, consumed,
                   all_models, costVars, regVars, query>>

\* lines 104-107: one iteration of `for future in as_completed(...)`: a future
\* that is done and not yet yielded is yielded; future.result() returns the
\* value of the call or raises what the call raised.
CollectFuture ==
    /\ aggregator = "get_all_models_sync"
    /\ dpc = "waiting"
    /\ \E i \in 1..Len(fetches) :
          /\ Finished(i)
          /\ i \notin Range(consumed)
          /\ consumed' = Append(consumed, i)
          /\ IF fetches[i].state = "raised"
             THEN /\ dpc' = "unwinding"
                  /\ all_models' = all_models
             ELSE /\ dpc' = dpc
                  /\ all_models' = IF Truthy(fetches[i].value)
                                   THEN Extend(all_models, Val(fetches[i].value))
                                   ELSE all_models
    /\ UNCHANGED <<aggregator, providers, include_deprecated, source, fetches,
                   costVars, regVars, query>>

\* lines 95, 109: every future has been yielded; the with block is left and
\* all_models returned.
ReturnSync ==
    /\ aggregator = "get_all_models_sync"
    /\ dpc = "waiting"
    /\ Len(consumed) = Len(fetches)
    /\ dpc' = "returned"
    /\ UNCHANGED <<aggregator, providers, include_deprecated, source, fetches, consumed,
                   all_models, costVars, regVars, query>>

\* line 95: an exception leaves the with block; the executor's shutdown waits
\* for every submitted call before the exception leaves get_all_models_sync.
UnwindSync ==
    /\ aggregator = "get_all_models_sync"
    /\ dpc = "unwinding"
    /\ \A i \in 1..Len(fetches) : Finished(i)
    /\ dpc' = "raised"
    /\ UNCHANGED <<aggregator, providers, include_deprecated, source, fetches, consumed,
                   all_models, costVars, regVars, query>>

NextDiscovery ==
    \/ FinishFetch
    \/ GatherResults
    \/ GatherPropagate
    \/ CollectResult
    \/ ReturnAsync
    \/ CollectFuture
    \/ ReturnSync
    \/ UnwindSync

SpecDiscovery == InitDiscovery /\ [][NextDiscovery]_vars

\* A call with a non-empty providers list (which may name the whole table) and
\* the default include_deprecated: what the flag filters and how the whole
\* table was asked for have no part in whether the call ends.
InitDiscoveryFair ==
    /\ InitDiscovery
    /\ providers # None
    /\ Val(providers) # <<>>
    /\ ~include_deprecated

\* The event loop and the thread pool run every task that can run, and the
\* caller goes on whenever it can.
SpecDiscoveryFair == InitDiscoveryFair /\ [][NextDiscovery]_vars /\ WF_vars(NextDiscovery)

-----------------------------------------------------------------------------
(* Claims about calculate_cost, checked under SpecCost *)

\* What a side adds to the total: rate * tokens, or nothing for an absent rate.
Contribution(rate, tokens) == IF rate = None THEN 0 ELSE Val(rate) * tokens

\* The record has a price at all: at least one standard rate is defined.
Priced(p) == p.input_cost_per_token # None \/ p.output_cost_per_token # None

OnlyStandardRates(p) ==
    /\ p.input_cost_per_token # None
    /\ p.output_cost_per_token # None
    /\ p.input_cost_above_128k = None
    /\ p.output_cost_above_128k = None
    /\ p.input_cost_above_200k = None
    /\ p.output_cost_above_200k = None

\* C1: for a record with only the standard input and output rates set, the
\* result of calculate_cost(n, m) is exactly n * input_rate + m * output_rate,
\* also when n exceeds 128_000 or 200_000.
C1_StandardRatesExact ==
    (called /\ OnlyStandardRates(pricing)) =>
        result = Some(input_tokens * Val(pricing.input_cost_per_token)
                      + output_tokens * Val(pricing.output_cost_per_token))

C1_Witness ==
    /\ called
    /\ OnlyStandardRates(pricing)
    /\ input_tokens > Threshold200k
    /\ output_tokens > 0
    /\ pricing.input_cost_per_token = Some(1)
    /\ pricing.output_cost_per_token = Some(2)
    /\ result = Some(input_tokens + 2 * output_tokens)

\* C2: calculate_cost returns None exactly when both standard rates are None;
\* with at least one standard rate defined it returns an amount, and that
\* amount is 0 when both token counts are 0.
C2_AbsentIffNoStandardRate ==
    called =>
        /\ (result = None) <=>
               (pricing.input_cost_per_token = None /\ pricing.output_cost_per_token = None)
        /\ (result # None /\ input_tokens = 0 /\ output_tokens = 0) => result = Some(0)

C2_Witness ==
    /\ called
    /\ pricing.input_cost_per_token = None
    /\ pricing.output_cost_per_token # None
    /\ input_tokens = 0
    /\ output_tokens = 0
    /\ result = Some(0)

C5_OutputTierByInputTokens ==
    /\ [][(called /\ called' /\ input_tokens' = input_tokens
             /\ output_tokens > 0 /\ output_tokens' > 0)
          => output_cost' = output_cost]_vars
    /\ [](called /\ Priced(pricing) /\ input_tokens = 100 /\ output_tokens = 300000
            => /\ output_cost = pricing.output_cost_per_token
               /\ result = Some(Contribution(input_cost, input_tokens)
                                + Contribution(pricing.output_cost_per_token, output_tokens)))
    /\ [](called /\ Priced(pricing) /\ input_tokens = 250000 /\ output_tokens = 1
             /\ pricing.output_cost_above_200k # None
            => /\ output_cost = pricing.output_cost_above_200k
               /\ result = Some(Contribution(input_cost, input_tokens)
                                + Val(pricing.output_cost_above_200k)))

C5_Witness ==
    /\ called
    /\ input_tokens = 100
    /\ output_tokens = 300000
    /\ pricing.output_cost_per_token = Some(1)
    /\ pricing.output_cost_above_128k = Some(2)
    /\ pricing.output_cost_above_200k = Some(2)
    /\ output_cost = Some(1)

-----------------------------------------------------------------------------
(* Claims about ChatModel.from_chat_completion_model and calculate_cost on *)
(* its result, checked under SpecConvert                                   *)

\* The rate of one side that applies to n input tokens, read off the source
\* record: the above-200k rate when n exceeds 200000 and that rate is defined,
\* else the above-128k rate when n exceeds 128000 and that rate is defined,
\* else the standard rate.
SourceRate(above_200k, above_128k, standard, n) ==
    IF n > Threshold200k /\ above_200k # None THEN above_200k
    ELSE IF n > Threshold128k /\ above_128k # None THEN above_128k
    ELSE standard

\* The charge for `tokens` tokens at an optional rate: nothing without tokens
\* or without a rate.
Charge(rate, tokens) == IF tokens > 0 /\ rate # None THEN Val(rate) * tokens ELSE 0

\* The cost of n input and m output tokens computed from the source record's
\* own rates: absent when both standard rates are absent.
SourceCost(model, n, m) ==
    IF model.input_cost_per_token = None /\ model.output_cost_per_token = None
    THEN None
    ELSE Some(Charge(SourceRate(model.input_cost_per_token_above_200k_tokens,
                                model.input_cost_per_token_above_128k_tokens,
                                model.input_cost_per_token, n), n)
              + Charge(SourceRate(model.output_cost_per_token_above_200k_tokens,
                                  model.output_cost_per_token_above_128k_tokens,
                                  model.output_cost_per_token, n), m))

\* C26: after the conversion every pricing field of the ChatModel equals the
\* source field of the same meaning, an absent one absent and never zero, and
\* every calculate_cost on the converted pricing returns the cost computed from
\* the source record's rates.
C26_ConversionKeepsAbsence ==
    chat_model # None =>
        LET model == Val(completion_model)
            p == Val(chat_model).pricing
        IN  /\ pricing = p
            /\ p.input_cost_per_token   = model.input_cost_per_token
            /\ p.output_cost_per_token  = model.output_cost_per_token
            /\ p.input_cost_above_128k  = model.input_cost_per_token_above_128k_tokens
            /\ p.output_cost_above_128k = model.output_cost_per_token_above_128k_tokens
            /\ p.input_cost_above_200k  = model.input_cost_per_token_above_200k_tokens
            /\ p.output_cost_above_200k = model.output_cost_per_token_above_200k_tokens
            /\ p.output_cost_per_reasoning_token = model.output_cost_per_reasoning_token
            /\ p.input_cost_priority    = model.input_cost_per_token_priority
            /\ p.output_cost_priority   = model.output_cost_per_token_priority
            /\ p.input_cost_flex        = model.input_cost_per_token_flex
            /\ p.output_cost_flex       = model.output_cost_per_token_flex
            /\ p.input_cost_per_image   = model.input_cost_per_image
            /\ p.input_cost_per_audio_second = model.input_cost_per_audio_per_second
            /\ p.input_cost_per_video_second = model.input_cost_per_video_per_second
            /\ p.tiered_pricing         = model.tiered_pricing
            /\ called => result = SourceCost(model, input_tokens, output_tokens)

\* A record with no input rate, an output rate and a free above-128k output
\* rate was converted and priced for a call above the lower threshold: the
\* input side stayed unpriced and the output side free.
C26_Witness ==
    /\ chat_model # None
    /\ called
    /\ Val(completion_model).input_cost_per_token = None
    /\ Val(completion_model).output_cost_per_token = Some(1)
    /\ Val(completion_model).output_cost_per_token_above_128k_tokens = Some(0)
    /\ Val(completion_model).output_cost_per_token_above_200k_tokens = None
    /\ pricing.input_cost_per_token = None
    /\ input_tokens = 250000
    /\ output_tokens = 300000
    /\ input_cost = None
    /\ result = Some(0)

\* The tiers of a pricing table whose range holds the token count strictly
\* inside (a count on a breakpoint is left to neither tier).
TiersContaining(table, n) ==
    {k \in 1..Len(table) : table[k].range[1] < n /\ n < table[k].range[2]}

\* C24: when the record defines tiered_pricing and a call charges input or
\* output tokens, the rate used on that side is the rate of the tier whose
\* range contains the input token count.
C24_TieredPricingConsulted ==
    (called /\ pricing.tiered_pricing # None /\ result # None) =>
        \A k \in TiersContaining(Val(pricing.tiered_pricing), input_tokens) :
            LET tier == Val(pricing.tiered_pricing)[k]
            IN  /\ input_tokens > 0 => input_cost = Some(tier.input_cost_per_token)
                /\ output_tokens > 0 => output_cost = Some(tier.output_cost_per_token)

-----------------------------------------------------------------------------
(* Claims about ModelRegistry.from_dict, checked under Spec *)

\* A dict entry with a mode key, as the raw mappings of Spec hold it.
DictEntry(mode, cost) ==
    [shape |-> "dict", contains_mode |-> TRUE, mode |-> mode, cost |-> cost,
     litellm_provider |-> "openai", input_cost_per_token |-> None,
     input_cost_per_second |-> None]

\* The entry's fields satisfy the schema of its variant: the costs are numeric
\* and the mode is a member of the enumeration.
Validates(item) == item[2].cost = "numeric" /\ item[2].mode \in ModelMode

\* The entry gets past the skip test and reaches a variant parser.
ReachesParser(item) ==
    /\ item[1] # RESERVED
    /\ item[2].shape = "dict"
    /\ item[2].contains_mode

\* C7: from_dict never aborts on a bad entry: no exception escapes; once it
\* has returned, every entry was processed, an entry whose validation raises
\* (a non-numeric cost, a mode outside the enumeration) is in the failure list
\* and not in the registry, and an entry that validates is in the registry.
C7_ImportNeverAborts ==
    /\ pc # "raised"
    /\ pc = "done" =>
          /\ pos = Len(data)
          /\ \A i \in 1..Len(data) :
                /\ data[i][1] \in Keys(models) \cup Range(failed_models)
                                   \cup Range(dropped_models)
                /\ (ReachesParser(data[i]) /\ ~Validates(data[i])) =>
                      /\ data[i][1] \notin Keys(models)
                      /\ data[i][1] \in Range(failed_models)
                /\ (ReachesParser(data[i]) /\ Validates(data[i])) =>
                      /\ data[i][1] \in Keys(models)
                      /\ data[i][1] \notin Range(failed_models)

C7_Witness ==
    /\ pc = "done"
    /\ Len(data) = 2
    /\ data[1][1] = "gpt-4"
    /\ data[1][2] = DictEntry("chat", "non_numeric")
    /\ data[2][1] = "claude-3"
    /\ data[2][2] = DictEntry("chat", "numeric")
    /\ Keys(models) = {"claude-3"}
    /\ failed_models = <<"gpt-4">>

\* C8: the reserved key 'sample_spec' is never a key of the registry's models,
\* whatever its value is.
C8_ReservedKeyNeverStored == RESERVED \notin Keys(models)

C8_Witness ==
    /\ pc = "done"
    /\ \E i \in 1..Len(data) :
          /\ data[i][1] = RESERVED
          /\ data[i][2] = DictEntry("chat", "numeric")
    /\ RESERVED \in Range(dropped_models)
    /\ RESERVED \notin Keys(models)

\* C9 (as claimed): after the import, an entry without a mode discriminator or
\* with the reserved key is in the dropped list and not in the failure list,
\* whatever the shape of its value (mapping, string, number or null).
C9_SkipNeverFails ==
    pc = "done" =>
        \A i \in 1..Len(data) :
            (data[i][1] = RESERVED
                \/ ~(data[i][2].shape = "dict" /\ data[i][2].contains_mode)) =>
                /\ data[i][1] \in Range(dropped_models)
                /\ data[i][1] \notin Range(failed_models)

\* The variant parser of each recognized mode.
VariantOfMode ==
    [m \in ModelMode |->
        CASE m = "chat" -> "ChatCompletionModel"
          [] m = "completion" -> "ChatCompletionModel"
          [] m = "embedding" -> "EmbeddingModel"
          [] m = "audio_transcription" -> "AudioTranscriptionModel"
          [] m = "audio_speech" -> "AudioSpeechModel"
          [] m = "image_generation" -> "ImageGenerationModel"
          [] m = "video_generation" -> "VideoGenerationModel"
          [] m = "rerank" -> "RerankModel"
          [] m = "responses" -> "ResponsesModel"
          [] m = "moderation" -> "ModerationModel"]

\* C10: every processed entry that reaches the dispatch is handed to exactly
\* one model_validate: that of its own variant when its mode is recognized, and
\* that of the chat variant when it is not; an unrecognized mode does not abort
\* the import.
C10_DispatchByMode ==
    /\ pc # "raised"
    /\ \A i \in 1..pos :
          ReachesParser(data[i]) =>
              LET expected == IF data[i][2].mode \in ModelMode
                              THEN VariantOfMode[data[i][2].mode]
                              ELSE "ChatCompletionModel"
              IN  /\ <<data[i][1], expected>> \in Range(validated)
                  /\ \A c \in Range(validated) : c[1] = data[i][1] => c[2] = expected
    /\ Len(validated) = Cardinality({i \in 1..pos : ReachesParser(data[i])})

C10_Witness ==
    /\ pc = "done"
    /\ Len(data) = 2
    /\ data[1][2] = DictEntry("ocr", "numeric")
    /\ data[2][2] = DictEntry("responses", "numeric")
    /\ validated = <<<<data[1][1], "ChatCompletionModel">>, <<data[2][1], "ResponsesModel">>>>
    /\ failed_models = <<data[1][1]>>
    /\ Keys(models) = {data[2][1]}


\* The number of the three collections that hold the name.
Holders(name) ==
    (IF name \in Keys(models) THEN 1 ELSE 0)
    + (IF name \in Range(dropped_models) THEN 1 ELSE 0)
    + (IF name \in Range(failed_models) THEN 1 ELSE 0)

\* C27: when from_dict has left its loop, every key of the raw mapping is in
\* exactly one of models, dropped_models and failed_models, the three hold no
\* other name, and their sizes add up to the number of raw entries.
C27_ImportPartitions ==
    pc = "done" =>
        /\ \A i \in 1..Len(data) : Holders(data[i][1]) = 1
        /\ Keys(models) \cup Range(dropped_models) \cup Range(failed_models)
              = Keys(data)
        /\ Len(models) + Len(dropped_models) + Len(failed_models) = Len(data)

\* An import of a parsing entry and of the reserved key has returned with one
\* record stored, one name dropped and none failed.
C27_Witness ==
    /\ pc = "done"
    /\ Len(data) = 2
    /\ Len(models) = 1
    /\ dropped_models = <<RESERVED>>
    /\ failed_models = <<>>

-----------------------------------------------------------------------------
(* A claim about load_model_config and from_dict, checked under SpecLoad *)

\* C28: for an attribute dict, once from_dict has processed it and
\* load_model_config has been called on it: with a mode field and a name that
\* is not reserved both called model_validate of the same variant, whatever the
\* mode string; without a mode field from_dict dropped the entry and called no
\* parser, while load_model_config called the chat parser.
C28_SameDispatch ==
    (pos = 1 /\ loaded # None) =>
        LET name == data[1][1]
            config_data == data[1][2]
        IN  /\ (config_data.contains_mode /\ name # RESERVED) =>
                   validated = <<<<name, Val(loaded).variant>>>>
            /\ ~config_data.contains_mode =>
                   /\ validated = <<>>
                   /\ dropped_models = <<name>>
                   /\ Val(loaded).variant = "ChatCompletionModel"

\* A dict with mode "responses" under an ordinary name went to the responses
\* parser on both paths.
C28_Witness ==
    /\ pc = "done"
    /\ loaded # None
    /\ data[1][1] # RESERVED
    /\ data[1][2].contains_mode
    /\ data[1][2].mode = "responses"
    /\ Val(loaded).variant = "ResponsesModel"
    /\ validated = <<<<data[1][1], "ResponsesModel">>>>

-----------------------------------------------------------------------------
(* A claim about the output of ModelRegistry.from_dict, checked under SpecReport *)

\* The printed lines of one kind, in the order printed.
LinesOf(kind) == SelectSeq(stdout, LAMBDA l : l.line = kind)

Min(a, b) == IF a <= b THEN a ELSE b

\* C25: with k entries failed so far, min(k, 5) failure messages have been
\* printed, one for each of the first failures in order; when the import has
\* returned with k > 0 failures one line reports k and the number of entries,
\* and with k = 0 there is no such line; the number of skipped entries, when
\* there are any, is reported in one separate line of its own.
C25_FailureReport ==
    LET k == Len(failed_models)
        shown == LinesOf("Failed to parse model")
    IN  /\ Len(shown) = Min(k, 5)
        /\ \A i \in 1..Len(shown) : shown[i].name = failed_models[i]
        /\ pc = "done" =>
              /\ LinesOf("Failed to parse") =
                    IF k > 0
                    THEN <<[line |-> "Failed to parse", name |-> "-", count |-> k,
                            total |-> Len(data)]>>
                    ELSE <<>>
              /\ LinesOf("Dropped") =
                    IF dropped_models # <<>>
                    THEN <<[line |-> "Dropped", name |-> "-",
                            count |-> Len(dropped_models), total |-> 0]>>
                    ELSE <<>>
              /\ Len(stdout) = Len(shown) + Len(LinesOf("Failed to parse"))
                                + Len(LinesOf("Dropped"))

\* An import of seven entries, six of which failed and one of which had no
\* mode, has returned: five messages, then the two counts.
C25_Witness ==
    /\ pc = "done"
    /\ Len(data) = 7
    /\ Len(failed_models) = 6
    /\ Len(dropped_models) = 1
    /\ Len(stdout) = 7
    /\ stdout[6].line = "Dropped" /\ stdout[6].count = 1
    /\ stdout[7].line = "Failed to parse" /\ stdout[7].count = 6 /\ stdout[7].total = 7

-----------------------------------------------------------------------------
(* Claims about the registry's queries, checked under SpecQuery *)

\* The raw entry declared a mode of the enumeration and parses under the
\* schema of that mode.
DeclaredAndParsed(item) ==
    /\ item[2].shape = "dict"
    /\ item[2].contains_mode
    /\ item[2].mode \in ModelMode
    /\ Validates(item)

\* C11: during and after an import every entry of models comes from a raw
\* entry, already visited, that declared a mode of the ModelMode enumeration
\* and parsed under the schema of that mode; the record carries that one mode
\* and is of the variant of that mode; and no step of the import or of a query
\* removes a stored record or changes its mode.
C11_ValidModeParsedAndImmutable ==
    /\ [](\A i \in 1..Len(models) :
            \E k \in 1..pos :
                /\ data[k][1] = models[i][1]
                /\ DeclaredAndParsed(data[k])
                /\ models[i][2].mode = data[k][2].mode
                /\ models[i][2].variant = VariantOfMode[data[k][2].mode])
    /\ [][\A i \in 1..Len(models) :
            /\ i <= Len(models')
            /\ models'[i][1] = models[i][1]
            /\ models'[i][2].mode = models[i][2].mode]_vars

\* An import of a parsable entry and of an entry whose only fault is a mode
\* outside the enumeration, followed by a query: only the first is stored.
C11_Witness ==
    /\ pc = "done"
    /\ Len(data) = 2
    /\ data[1][2] = DictEntry("embedding", "numeric")
    /\ data[2][2] = DictEntry("ocr", "numeric")
    /\ Len(models) = 1
    /\ models[1][1] = data[1][1]
    /\ models[1][2].mode = "embedding"
    /\ query.op = "get_models_by_mode"
    /\ query.arg = "embedding"
    /\ Len(query.ret) = 1

\* str.lower() on the names that occur here: only "GPT-4" has upper-case
\* letters.
Lower(name) == IF name = "GPT-4" THEN "gpt-4" ELSE name

\* C12: a get_model lookup of a name that is not itself a key but differs from a
\* stored key only in letter case returns the record stored under that key.
C12_LookupNormalizesCase ==
    query.op = "get_model" =>
        \A i \in 1..Len(models) :
            (/\ query.arg \notin Keys(models)
             /\ Lower(models[i][1]) = Lower(query.arg)) =>
                query.ret = Some(models[i][2])

\* C13: a get_model call for a name that is not a key of the registry returns
\* None, raises nothing and leaves the mapping as it was.
C13_UnknownNameIsAbsent ==
    [][(/\ pc = "done"
        /\ query'.op = "get_model"
        /\ query'.arg \notin Keys(models)) =>
            (/\ query'.ret = None
             /\ query'.exc = "none"
             /\ models' = models)]_vars

\* A non-empty registry was asked for a name it does not hold.
C13_Witness ==
    /\ pc = "done"
    /\ Len(models) = 2
    /\ query.op = "get_model"
    /\ query.arg = "unknown-model"
    /\ query.ret = None
    /\ query.exc = "none"
-----------------------------------------------------------------------------
(* Claims about get_cheapest_model_by_mode, checked under SpecCheapest *)

\* The comparable cost of a record: its per-token input cost if defined, else
\* its per-second input cost for a transcription record, else None (unbounded).
ComparableCost(model) ==
    IF model.input_cost_per_token # None
    THEN model.input_cost_per_token
    ELSE IF model.mode = "audio_transcription" /\ model.input_cost_per_second # None
    THEN model.input_cost_per_second
    ELSE None

\* Record m1 is strictly cheaper than record m2.
Cheaper(m1, m2) ==
    /\ ComparableCost(m1) # None
    /\ ComparableCost(m2) = None \/ Val(ComparableCost(m1)) < Val(ComparableCost(m2))

\* C14: get_cheapest_model_by_mode(mode) returns None when no record has the
\* mode; otherwise it returns the (name, record) pair of a record of that mode
\* such that no record of the mode is strictly cheaper (so a record without a
\* comparable cost is returned only when none has one) and every record of the
\* mode inserted earlier is strictly more expensive; over {A: 2 units, B: 1
\* unit, C: no cost} it returns B.
C14_CheapestByMode ==
    query.op = "get_cheapest_model_by_mode" =>
        LET cands == {i \in 1..Len(models) : models[i][2].mode = query.arg}
        IN  /\ cands = {} => query.ret = None
            /\ cands # {} =>
                  \E i \in cands :
                      /\ query.ret = Some(models[i])
                      /\ \A j \in cands : ~Cheaper(models[j][2], models[i][2])
                      /\ \A j \in cands : j < i => Cheaper(models[i][2], models[j][2])
            /\ (/\ Len(models) = 3
                /\ \A i \in 1..3 : models[i][2].mode = query.arg
                /\ ComparableCost(models[1][2]) = Some(2)
                /\ ComparableCost(models[2][2]) = Some(1)
                /\ ComparableCost(models[3][2]) = None) =>
                   query.ret = Some(models[2])

\* The example of the claim: of three chat records costing 2 units, 1 unit and
\* nothing comparable, the second is returned.
C14_Witness ==
    /\ query.op = "get_cheapest_model_by_mode"
    /\ query.arg = "chat"
    /\ Len(models) = 3
    /\ \A i \in 1..3 : models[i][2].mode = "chat"
    /\ ComparableCost(models[1][2]) = Some(2)
    /\ ComparableCost(models[2][2]) = Some(1)
    /\ ComparableCost(models[3][2]) = None
    /\ query.ret = Some(models[2])

-----------------------------------------------------------------------------
(* Further claims about the registry's queries, checked under SpecQuery *)

\* The returned mapping ret is the part of the registry selected by Matches:
\* every matching item is in it, every item of it is an item of the registry
\* (same name, same record) and matches, and no name occurs twice.
IsSubMapping(ret, Matches(_)) ==
    /\ \A i \in 1..Len(models) : Matches(models[i][2]) => models[i] \in Range(ret)
    /\ \A r \in Range(ret) : r \in Range(models) /\ Matches(r[2])
    /\ Cardinality(Keys(ret)) = Len(ret)

\* C15: get_models_by_provider(p) returns exactly the items of the registry
\* whose record has litellm_provider = p, and get_models_by_mode(m) exactly
\* those whose record has mode = m, each name with its record of the registry.
C15_FilteredSubMapping ==
    /\ query.op = "get_models_by_provider" =>
           IsSubMapping(query.ret, LAMBDA config : config.litellm_provider = query.arg)
    /\ query.op = "get_models_by_mode" =>
           IsSubMapping(query.ret, LAMBDA config : config.mode = query.arg)

\* A registry of two records of one provider and different modes was asked for
\* that provider: both come back.
C15_Witness ==
    /\ query.op = "get_models_by_provider"
    /\ query.arg = "anthropic"
    /\ Len(models) = 2
    /\ models[1][2].mode # models[2][2].mode
    /\ query.ret = models

\* C16: once from_dict has returned, the mapping holds exactly the entries of
\* the raw mapping that reached a parser and validated; no query changes it;
\* and a query repeated at once with the same argument returns what it
\* returned before.
C16_QueriesReadOnly ==
    /\ [](pc = "done" =>
            \A k \in 1..Len(data) :
                data[k][1] \in Keys(models) <=> (ReachesParser(data[k]) /\ Validates(data[k])))
    /\ [][pc = "done" =>
            /\ models' = models
            /\ (query'.op = query.op /\ query'.arg = query.arg) => query'.ret = query.ret]_vars

\* A lookup found the first of two records, and both are still in the registry.
C16_Witness ==
    /\ pc = "done"
    /\ Len(data) = 2
    /\ Len(models) = 2
    /\ query.op = "get_model"
    /\ query.arg = models[1][1]
    /\ query.ret = Some(models[1][2])

-----------------------------------------------------------------------------
(* Claims about the discovery aggregators, checked under SpecDiscovery *)

\* The i-th selected adapter succeeded: its constructor and its get_models
\* returned.
Succeeded(i) == source[i].stage = "none"

\* The i-th selected adapter failed: its constructor or its get_models raised
\* an Exception (a cancelled fetch is neither a success nor a failure).
Failed(i) == source[i].stage # "none" /\ source[i].exc # "CancelledError"

Cancelled(i) == source[i].exc = "CancelledError"

\* The result of the i-th adapter as the aggregate keeps it: the records it
\* returned, without the deprecated ones unless include_deprecated is set;
\* nothing for an adapter that did not succeed.
Kept(i) ==
    IF ~Succeeded(i) THEN <<>>
    ELSE IF include_deprecated THEN source[i].models
    ELSE SelectSeq(source[i].models, LAMBDA model : model.is_deprecated = FALSE)

\* The concatenation of the kept results of the adapters in the given order.
RECURSIVE Concatenation(_)
Concatenation(order) ==
    IF order = <<>> THEN <<>> ELSE Kept(Head(order)) \o Concatenation(Tail(order))

\* C17: when every selected adapter either succeeds or fails with an Exception
\* raised by its constructor or its fetch, no exception leaves get_all_models
\* or get_all_models_sync, and the list returned is the concatenation, in the
\* order in which the results were merged, of the kept results of exactly the
\* adapters that succeeded, every selected adapter having been merged once.
C17_PartialFailureTolerated ==
    (\A i \in 1..Len(source) : Succeeded(i) \/ Failed(i)) =>
        /\ dpc \notin {"unwinding", "raised"}
        /\ dpc = "returned" =>
              /\ all_models = Concatenation(consumed)
              /\ Range(consumed) = 1..Len(source)
              /\ Len(consumed) = Len(source)

\* Three sources, the second of which times out on fetch: get_all_models
\* returned the records of the first and the third.
C17_Witness ==
    /\ aggregator = "get_all_models"
    /\ dpc = "returned"
    /\ include_deprecated
    /\ Len(source) = 3
    /\ source[1].models # <<>>
    /\ source[2].exc = "TimeoutException"
    /\ source[3].models # <<>>
    /\ all_models = source[1].models \o source[3].models

\* C18: in get_all_models, once the fetch of one source has timed out or been
\* cancelled, no exception leaves the aggregate call, every other fetch ends
\* the way its own source makes it end, and when the call has returned the kept
\* records of every other source that succeeded are in the merged list.
C18_SiblingsUnaffected ==
    aggregator = "get_all_models" =>
        \A i \in 1..Len(fetches) :
            (Finished(i) /\ source[i].exc \in {"TimeoutException", "CancelledError"}) =>
                /\ dpc # "raised"
                /\ \A j \in 1..Len(fetches) :
                      (j # i /\ Finished(j)) =>
                          (fetches[j].state = "raised" <=> Cancelled(j))
                /\ dpc = "returned" =>
                      \A j \in 1..Len(fetches) :
                          (j # i /\ Succeeded(j)) =>
                              \A r \in Range(Kept(j)) : r \in Range(all_models)

\* C20: in the list returned by get_all_models or get_all_models_sync the
\* records of each source are exactly the records that source returned (as
\* kept), in the order in which it returned them, and they stand next to each
\* other: no record of another source lies between two records of one source.
C20_BlocksPerSource ==
    dpc = "returned" =>
        /\ \A i \in 1..Len(source) :
              SelectSeq(all_models,
                        LAMBDA model : model.provider = selected_providers[i]) = Kept(i)
        /\ \A a, b, c \in 1..Len(all_models) :
              (a < b /\ b < c /\ all_models[a].provider = all_models[c].provider) =>
                  all_models[b].provider = all_models[a].provider

\* get_all_models_sync returned the records of the second selected source in
\* front of those of the first, each block in its source's order.
C20_Witness ==
    /\ aggregator = "get_all_models_sync"
    /\ dpc = "returned"
    /\ Len(source) = 2
    /\ Len(Kept(1)) = 2
    /\ Len(Kept(2)) = 2
    /\ all_models = Kept(2) \o Kept(1)

\* C21: in the list an aggregator returns, with include_deprecated false there
\* is no deprecated record and there is every non-deprecated record of every
\* source that succeeded; with include_deprecated true there is every record of
\* every source that succeeded.
C21_DeprecatedFilter ==
    dpc = "returned" =>
        /\ ~include_deprecated =>
              /\ \A r \in Range(all_models) : ~r.is_deprecated
              /\ \A i \in 1..Len(source) :
                    Succeeded(i) =>
                        \A r \in Range(source[i].models) :
                            ~r.is_deprecated => r \in Range(all_models)
        /\ include_deprecated =>
              \A i \in 1..Len(source) :
                  Succeeded(i) =>
                      \A r \in Range(source[i].models) : r \in Range(all_models)

\* A default call on one source whose catalogue holds a deprecated record
\* between two current ones returned the two current ones.
C21_Witness ==
    /\ dpc = "returned"
    /\ ~include_deprecated
    /\ Len(source) = 1
    /\ Len(source[1].models) = 3
    /\ source[1].models[2].is_deprecated
    /\ all_models = <<source[1].models[1], source[1].models[3]>>

\* C22: an adapter that cannot run for want of its credential (is_available()
\* false, or its construction raises) is skipped: its fetch is not attempted,
\* it contributes no records, and the aggregate call does not fail.
C22_UnavailableSkipped ==
    \A i \in 1..Len(source) :
        (Finished(i) /\ ~source[i].available) =>
            /\ ~fetches[i].attempted
            /\ Kept(i) = <<>>
            /\ dpc # "raised"

\* C23: when a non-empty selection of tags is passed, one fetch is started per
\* selected tag and no other, every record in the merged list carries a
\* selected tag, a tag that is not in the provider table is looked up without
\* a fetch, contributes nothing and its KeyError stays inside its own fetch,
\* and nothing but a cancelled fetch makes the aggregate call raise.
C23_OnlySelectedAdapters ==
    (providers # None /\ Val(providers) # <<>>) =>
        /\ Len(fetches) = Len(Val(providers))
        /\ \A r \in Range(all_models) : r.provider \in Range(Val(providers))
        /\ \A i \in 1..Len(fetches) :
              (Val(providers)[i] = UnknownTag /\ Finished(i)) =>
                  /\ fetches[i].state = "returned"
                  /\ ~fetches[i].attempted
                  /\ ~Truthy(fetches[i].value)
        /\ dpc = "raised" => \E j \in 1..Len(fetches) : Cancelled(j)

\* A call that selected one tag of the table and one unknown tag returned the
\* catalogue of the known one, all records carrying its tag.
C23_Witness ==
    /\ dpc = "returned"
    /\ providers = Some(<<PROVIDER_MAP[1], UnknownTag>>)
    /\ include_deprecated
    /\ Len(all_models) = 3
    /\ \A k \in 1..3 : all_models[k].provider = PROVIDER_MAP[1]

\* The number of occurrences of a record in a list.
Occurrences(list, r) == Cardinality({k \in 1..Len(list) : list[k] = r})

\* Two lists hold the same records the same number of times.
SameMultiset(left, right) ==
    \A r \in Range(left) \cup Range(right) : Occurrences(left, r) = Occurrences(right, r)

\* The indices 1..n in ascending order.
Ascending(n) == [i \in 1..n |-> i]

\* The outcome of a call is fixed by its selection, its flag and the outcomes
\* of its adapters: it raises exactly when some fetch was cancelled, and what
\* it returns holds exactly the kept records of its adapters.
OutcomeFixedByInputs ==
    /\ dpc = "raised" => \E i \in 1..Len(source) : Cancelled(i)
    /\ dpc = "returned" =>
          /\ \A i \in 1..Len(source) : ~Cancelled(i)
          /\ SameMultiset(all_models, Concatenation(Ascending(Len(source))))

\* A step that changes all_models is a step of the caller that merges the whole
\* result of one finished fetch it had not merged before.
OnlyCollectorExtends ==
    all_models' # all_models =>
        \E i \in 1..Len(fetches) :
            /\ Finished(i)
            /\ fetches[i].state = "returned"
            /\ i \notin Range(consumed)
            /\ consumed' = Append(consumed, i)
            /\ fetches' = fetches
            /\ all_models' = all_models \o Val(fetches[i].value)

\* C29: get_all_models and get_all_models_sync, given the same selection, the
\* same flag and the same adapter outcomes, end the same way under every
\* completion order, and when they return they return the same multiset of
\* records; all_models is extended only by the caller, with the result of a
\* fetch that has finished.
C29_SameMultisetBothVariants ==
    []OutcomeFixedByInputs /\ [][OnlyCollectorExtends]_vars

\* The thread-pool variant merged the second source before the first and
\* returned the records of both in that order.
C29_Witness ==
    /\ aggregator = "get_all_models_sync"
    /\ dpc = "returned"
    /\ consumed = <<2, 1>>
    /\ Kept(1) # <<>>
    /\ Kept(2) # <<>>
    /\ all_models = Kept(2) \o Kept(1)

\* C30: a call with an empty selection, like a call with none, starts one
\* fetch for every provider of the table, in the order of the table, and when
\* it returns the merged list holds the kept records of every one of them,
\* not an empty list.
C30_EmptySelectionIsDefault ==
    (providers = Some(<<>>) \/ providers = None) =>
        /\ Len(fetches) = Len(PROVIDER_MAP)
        /\ \A i \in 1..Len(PROVIDER_MAP) : source[i] \in SourceBehaviours(PROVIDER_MAP[i])
        /\ dpc = "returned" =>
              /\ \A i \in 1..Len(PROVIDER_MAP) :
                    \A r \in Range(Kept(i)) : r \in Range(all_models)
              /\ Len(all_models) = Len(Concatenation(Ascending(Len(PROVIDER_MAP))))

\* A call with an empty selection returned the whole catalogue of every
\* provider of the table.
C30_Witness ==
    /\ providers = Some(<<>>)
    /\ dpc = "returned"
    /\ include_deprecated
    /\ \A i \in 1..Len(PROVIDER_MAP) : Len(Kept(i)) = 3
    /\ Len(all_models) = 3 * Len(PROVIDER_MAP)

-----------------------------------------------------------------------------
(* A claim about the discovery aggregators, checked under SpecDiscoveryFair *)

\* C19: there is one fetch per selected provider; the aggregate call has
\* returned only when every one of them has finished; and when every fetch
\* returns or raises an Exception (none is cancelled) and every fetch that can
\* run does run, the aggregate call eventually returns.
C19_JoinsOnAll ==
    /\ [](Len(fetches) = Len(selected_providers))
    /\ [](dpc = "returned" => \A i \in 1..Len(fetches) : Finished(i))
    /\ (\A i \in 1..Len(source) : ~Cancelled(i)) ~> (dpc = "returned")

\* get_all_models_sync returned after three fetches, one of which had failed,
\* had finished in an order other than the order of selection.
C19_Witness ==
    /\ aggregator = "get_all_models_sync"
    /\ dpc = "returned"
    /\ Len(fetches) = 3
    /\ \A i \in 1..3 : Finished(i)
    /\ Failed(2)
    /\ consumed = <<3, 1, 2>>

=============================================================================
